---- MODULE Spec2Model ----
(***************************************************************************)
(* A model of package notify (notify.go): the dispatcher Notify with its   *)
(* ordered list of bindings (telegram, line, discord), the two dispatch    *)
(* loops Send and SendRaw, and the six binding operations.                 *)
(*                                                                         *)
(* A Go map[string]interface{} is a reference: the caller's payload lives  *)
(* in `heap` and bindings receive its address.  A map's contents are a set *)
(* of <<key, value>> pairs with unique keys; a JSON object is the same.    *)
(* The HTTP client is the environment: every client.Do draws its outcome   *)
(* from Responses.  Tokens and destinations are strings that make a valid  *)
(* URL, so http.NewRequest does not fail.                                  *)
(***************************************************************************)
EXTENDS Integers, Sequences, FiniteSets, TLC

\* ------------------------------------------------------------------ bounds
MaxBindings == 2
MaxSends == 2

\* ------------------------------------------------------- program constants
StatusOK == 200
StatusNoContent == 204
StatusInternalServerError == 500

\* client.Do returned a non-nil error (no response)
TransportFail == 0
Responses == {TransportFail, StatusOK, StatusNoContent, StatusInternalServerError}

\* ------------------------------------------------------------ input spaces
Kinds == {"telegram", "line", "discord"}
Tokens == {"tok"}
ChatIDs == {"c1", "c2"}
\* the destinations a registration is given, by kind
Destinations(kind) == IF kind = "telegram" THEN ChatIDs ELSE {"c1"}

\* a value json.Marshal rejects (a Go channel or func inside the map)
Unmarshalable == "<chan>"

\* the payload maps the caller owns, by address, with their initial contents
Refs == {1, 2, 3}
NoRef == 0
InitialHeap ==
    [r \in Refs |->
        CASE r = 1 -> {<<"content", "hi">>}
          [] r = 2 -> {<<"content", "hi">>, <<"chat_id", "mine">>}
          [] r = 3 -> {<<"content", Unmarshalable>>, <<"chat_id", "mine">>}]

\* what a caller may hand to Send(message interface{})
SendInputs ==
    {[shape |-> "string", str |-> s, lines |-> <<>>, ref |-> NoRef] :
        s \in {"a\nb"}}
    \cup
    {[shape |-> "lines", str |-> "", lines |-> l, ref |-> NoRef] :
        l \in {<<>>, <<"a\nb">>, <<"a", "b">>}}
    \cup
    {[shape |-> "number", str |-> "", lines |-> <<>>, ref |-> NoRef]}
    \cup
    {[shape |-> "map", str |-> "", lines |-> <<>>, ref |-> 1]}

\* --------------------------------------------------------------- variables
VARIABLES
    Notify,      \* n.Notify: the ordered list of bindings
    heap,        \* contents of the caller's payload maps, by address
    pc,          \* "idle", or the dispatch loop that is running
    idx,         \* position of the running loop in n.Notify
    newMessage,  \* Send's normalized text
    message,     \* SendRaw's argument (an address)
    errs,        \* the loop's collected errors
    result,      \* what the last Send/SendRaw returned
    calls,       \* history: the HTTP requests of the current/last send call
    attempts,    \* history: the binding operations invoked by that call
    lastCall,    \* history: the last dispatcher method entered and its input
    hist,        \* history: per line binding, the arguments of all its operations
    reqs,        \* history: per line binding, the messages array of each request
    registered,  \* history: the registration calls, in call order
    nSends       \* number of send calls made (bounded by MaxSends)

vars == <<Notify, heap, pc, idx, newMessage, message, errs, result, calls,
          attempts, lastCall, hist, reqs, registered, nSends>>

\* ----------------------------------------------------------------- values
NoErr == [api |-> "", kind |-> "nil", status |-> 0]
Err(api, kind, status) == [api |-> api, kind |-> kind, status |-> status]

NoInput == [shape |-> "none", str |-> "", lines |-> <<>>, ref |-> NoRef]

Has(m, k) == \E p \in m : p[1] = k

\* a binding: the three struct types share BotToken and ChatID; Text is
\* telegram's, Messages is line's, Content is discord's
NewBinding(kind, botToken, chatId) ==
    [kind |-> kind, BotToken |-> botToken, ChatID |-> chatId,
     Text |-> "", Content |-> "", Messages |-> <<>>]

\* an element of line.Messages: a fresh map literal held by value, or the
\* caller's map held by address
TextEntry(text) == [ref |-> NoRef, val |-> {<<"type", "text">>, <<"text", text>>}]
RawEntry(r) == [ref |-> r, val |-> {}]
EntryValue(e, h) == IF e.ref = NoRef THEN e.val ELSE h[e.ref]

\* ----------------------------------------------------------- strings.Join
RECURSIVE JoinFrom(_, _, _, _)
JoinFrom(elems, sep, k, acc) ==
    IF k > Len(elems) THEN acc
    ELSE JoinFrom(elems, sep, k + 1, acc \o sep \o elems[k])

Join_TrailingSep(elems, sep) ==
    CASE Len(elems) = 0 -> ""
      [] OTHER -> JoinFrom(elems, sep, 2, elems[1]) \o sep

Join(elems, sep) ==
    CASE Len(elems) = 0 -> ""
      [] Len(elems) = 1 -> elems[1]
      [] OTHER -> JoinFrom(elems, sep, 2, elems[1])

\* ------------------------------------------------------------ json.Marshal
\* of a map: fails on a value it cannot encode, else the object's pairs
MarshalMapOK(m) == \A p \in m : p[2] # Unmarshalable
MarshalMap(m) == [fields |-> m, messages |-> <<>>]

\* of *telegram: BotToken is json:"-"
MarshalTelegram(t) ==
    [fields |-> {<<"chat_id", t.ChatID>>, <<"text", t.Text>>}, messages |-> <<>>]

\* of *discord: BotToken and ChatID are json:"-"
MarshalDiscord(d) ==
    [fields |-> {<<"content", d.Content>>}, messages |-> <<>>]

\* of *line: BotToken is json:"-"
MarshalLineOK(l, h) ==
    \A j \in 1..Len(l.Messages) : MarshalMapOK(EntryValue(l.Messages[j], h))
MarshalLine(l, h) ==
    [fields |-> {<<"to", l.ChatID>>},
     messages |-> [j \in 1..Len(l.Messages) |-> EntryValue(l.Messages[j], h)]]

\* ------------------------------------------------------------ the requests
TelegramURL(t) == <<"https://api.telegram.org/bot", t.BotToken, "/sendMessage">>
LineURL == <<"https://api.line.me/v2/bot/message/push", "", "">>
DiscordURL(d) == <<"https://discord.com/api/v10/channels/", d.ChatID, "/messages">>

Request(i, op, url, auth, body, r) ==
    [idx |-> i, op |-> op, url |-> url, auth |-> auth, body |-> body, status |-> r]

\* client.Do and the status test that follows it
Respond_Accept204(api, r) ==
    IF r = TransportFail THEN Err(api, "transport", 0)
    ELSE IF r # StatusOK /\ r # StatusNoContent THEN Err(api, "status", r)
    ELSE NoErr

Respond(api, r) ==
    IF r = TransportFail THEN Err(api, "transport", 0)
    ELSE IF r # StatusOK THEN Err(api, "status", r)
    ELSE NoErr

Attempt(i, op, text, payload, err) ==
    [idx |-> i, op |-> op, text |-> text, payload |-> payload, err |-> err]

\* -------------------------------------------------------------------- Init
Init ==
    /\ Notify = <<>>
    /\ heap = InitialHeap
    /\ pc = "idle"
    /\ idx = 0
    /\ newMessage = ""
    /\ message = NoRef
    /\ errs = <<>>
    /\ result = [kind |-> "none", errs |-> <<>>]
    /\ calls = <<>>
    /\ attempts = <<>>
    /\ lastCall = [op |-> "New", input |-> NoInput, payload |-> {}]
    /\ hist = <<>>
    /\ reqs = <<>>
    /\ registered = <<>>
    /\ nSends = 0

\* ------------------------------------------------------------ registration
AppendBinding_Prepend(list, b) == <<b>> \o list

AppendBinding(list, b) == Append(list, b)

Register(kind, botToken, chatId) ==
    /\ pc = "idle"
    /\ Len(Notify) < MaxBindings
    /\ Notify' = AppendBinding(Notify, NewBinding(kind, botToken, chatId))
    /\ result' = [kind |-> "self", errs |-> <<>>]
    /\ lastCall' = [op |-> kind, input |-> NoInput, payload |-> {}]
    /\ hist' = Append(hist, <<>>)
    /\ reqs' = Append(reqs, <<>>)
    /\ registered' = Append(registered,
                           [kind |-> kind, BotToken |-> botToken, ChatID |-> chatId])
    /\ calls' = <<>>
    /\ attempts' = <<>>
    /\ UNCHANGED <<heap, pc, idx, newMessage, message, errs, nSends>>

Telegram == \E botToken \in Tokens, chatId \in Destinations("telegram") : Register("telegram", botToken, chatId)

Line == \E botToken \in Tokens, chatId \in Destinations("line") : Register("line", botToken, chatId)

Discord == \E botToken \in Tokens, channelID \in Destinations("discord") : Register("discord", botToken, channelID)

\* ------------------------------------------------------- Notify.Send, entry
TypeSwitch_AcceptAny(m) ==
    CASE m.shape = "lines" -> [ok |-> TRUE, msg |-> Join(m.lines, "\n")]
      [] OTHER -> [ok |-> TRUE, msg |-> m.str]

TypeSwitch(m) ==
    CASE m.shape = "lines" -> [ok |-> TRUE, msg |-> Join(m.lines, "\n")]
      [] m.shape = "string" -> [ok |-> TRUE, msg |-> m.str]
      [] OTHER -> [ok |-> FALSE, msg |-> ""]

InputPayload(m) == IF m.ref = NoRef THEN {} ELSE heap[m.ref]

\* the message is a string or []string: the loop is entered
SendBegin ==
    \E m \in SendInputs :
        /\ pc = "idle"
        /\ nSends < MaxSends
        /\ TypeSwitch(m).ok
        /\ newMessage' = TypeSwitch(m).msg
        /\ pc' = "Send"
        /\ idx' = 1
        /\ errs' = <<>>
        /\ calls' = <<>>
        /\ attempts' = <<>>
        /\ result' = [kind |-> "running", errs |-> <<>>]
        /\ lastCall' = [op |-> "Send", input |-> m, payload |-> InputPayload(m)]
            /\ nSends' = nSends + 1
        /\ UNCHANGED <<Notify, heap, message, hist, reqs, registered>>

\* the default case: return errors.New("invalid message")
SendInvalid ==
    \E m \in SendInputs :
        /\ pc = "idle"
        /\ nSends < MaxSends
        /\ ~TypeSwitch(m).ok
        /\ result' = [kind |-> "invalid message", errs |-> <<>>]
        /\ calls' = <<>>
        /\ attempts' = <<>>
        /\ lastCall' = [op |-> "Send", input |-> m, payload |-> InputPayload(m)]
            /\ nSends' = nSends + 1
        /\ UNCHANGED <<Notify, heap, pc, idx, newMessage, message, errs, hist, reqs,
                       registered>>

\* ---------------------------------------------------- Notify.SendRaw, entry
SendRawBegin ==
    \E r \in Refs :
        /\ pc = "idle"
        /\ nSends < MaxSends
        /\ message' = r
        /\ pc' = "SendRaw"
        /\ idx' = 1
        /\ errs' = <<>>
        /\ calls' = <<>>
        /\ attempts' = <<>>
        /\ result' = [kind |-> "running", errs |-> <<>>]
        /\ lastCall' = [op |-> "SendRaw",
                        input |-> [shape |-> "map", str |-> "", lines |-> <<>>, ref |-> r],
                        payload |-> heap[r]]
            /\ nSends' = nSends + 1
        /\ UNCHANGED <<Notify, heap, newMessage, hist, reqs, registered>>

\* ------------------------------------------------- the body of either loop
\* errs = append(errs, err) when err != nil
Collect(es, err) == IF err # NoErr THEN Append(es, err) ELSE es

\* the range loop moves on to the next binding whatever err was
NextIdx_StopOnError(i, err) == IF err # NoErr THEN Len(Notify) + 1 ELSE i + 1

NextIdx(i, err) == i + 1

\* what every binding operation does after shaping its request: marshal
\* (ok says whether it succeeded), POST, test the status; b1 and h1 are the
\* binding and the heap as the operation left them
Invoke(api, op, b1, h1, ok, url, auth, body, text) ==
    \E r \in Responses :
        LET err == IF ok THEN Respond(api, r) ELSE Err(api, "marshal", 0)
            ref == IF op = "raw" THEN message ELSE NoRef
            payload == IF op = "raw" THEN heap[message] ELSE {}
        IN  /\ Notify' = [Notify EXCEPT ![idx] = b1]
            /\ heap' = h1
            /\ calls' = IF ok THEN Append(calls, Request(idx, op, url, auth, body, r))
                               ELSE calls
            /\ errs' = Collect(errs, err)
            /\ attempts' = Append(attempts, Attempt(idx, op, text, payload, err))
            /\ hist' = [hist EXCEPT ![idx] =
                            IF api = "line"
                            THEN Append(@, [op |-> op, text |-> text, ref |-> ref,
                                            payload |-> payload])
                            ELSE @]
            /\ reqs' = [reqs EXCEPT ![idx] =
                            IF ok /\ api = "line" THEN Append(@, body.messages) ELSE @]
            /\ idx' = NextIdx(idx, err)
            /\ UNCHANGED <<pc, newMessage, message, result, lastCall, registered, nSends>>

InLoop(loop, kind) ==
    /\ pc = loop
    /\ idx <= Len(Notify)
    /\ Notify[idx].kind = kind

\* ---------------------------------------------------------------- telegram
SetText_AlsoChatID(t, text) == [t EXCEPT !.Text = text, !.ChatID = text]

SetText(t, text) == [t EXCEPT !.Text = text]

TelegramSend ==
    /\ InLoop("Send", "telegram")
    /\ LET t1 == SetText(Notify[idx], newMessage)
       IN  Invoke("telegram", "text", t1, heap, TRUE, TelegramURL(t1), "",
                  MarshalTelegram(t1), newMessage)

\* if _, ok := message["chat_id"]; !ok { message["chat_id"] = t.ChatID }
PutChatID(m, chatId) == IF Has(m, "chat_id") THEN m ELSE m \cup {<<"chat_id", chatId>>}

TelegramSendRaw ==
    /\ InLoop("SendRaw", "telegram")
    /\ LET t == Notify[idx]
           h1 == [heap EXCEPT ![message] = PutChatID(@, t.ChatID)]
       IN  Invoke("telegram", "raw", t, h1, MarshalMapOK(h1[message]), TelegramURL(t), "",
                  MarshalMap(h1[message]), "")

\* -------------------------------------------------------------------- line
LineAppend_Replace(msgs, e) == <<e>>

LineAppend(msgs, e) == Append(msgs, e)

LineSend ==
    /\ InLoop("Send", "line")
    /\ LET l1 == [Notify[idx] EXCEPT !.Messages = LineAppend(@, TextEntry(newMessage))]
       IN  Invoke("line", "text", l1, heap, MarshalLineOK(l1, heap), LineURL,
                  <<"Bearer ", l1.BotToken>>, MarshalLine(l1, heap), newMessage)

LineSendRaw ==
    /\ InLoop("SendRaw", "line")
    /\ LET l1 == [Notify[idx] EXCEPT !.Messages = LineAppend(@, RawEntry(message))]
       IN  Invoke("line", "raw", l1, heap, MarshalLineOK(l1, heap), LineURL,
                  <<"Bearer ", l1.BotToken>>, MarshalLine(l1, heap), "")

\* ----------------------------------------------------------------- discord
DiscordSend ==
    /\ InLoop("Send", "discord")
    /\ LET d1 == [Notify[idx] EXCEPT !.Content = newMessage]
       IN  Invoke("discord", "text", d1, heap, TRUE, DiscordURL(d1),
                  <<"Bot ", d1.BotToken>>, MarshalDiscord(d1), newMessage)

DiscordSendRaw ==
    /\ InLoop("SendRaw", "discord")
    /\ LET d == Notify[idx]
       IN  Invoke("discord", "raw", d, heap, MarshalMapOK(heap[message]), DiscordURL(d),
                  <<"Bot ", d.BotToken>>, MarshalMap(heap[message]), "")

\* ------------------------------------------------- the end of either loop
\* if len(errs) > 0 { return errors.Join(errs...) }; return nil
JoinErrors(es) ==
    IF Len(es) > 0 THEN [kind |-> "joined", errs |-> es]
    ELSE [kind |-> "nil", errs |-> <<>>]

SendReturn ==
    /\ pc = "Send"
    /\ idx > Len(Notify)
    /\ result' = JoinErrors(errs)
    /\ pc' = "idle"
    /\ idx' = 0
    /\ newMessage' = ""
    /\ message' = NoRef
    /\ errs' = <<>>
    /\ UNCHANGED <<Notify, heap, calls, attempts, lastCall, hist, reqs, registered, nSends>>

SendRawReturn ==
    /\ pc = "SendRaw"
    /\ idx > Len(Notify)
    /\ result' = JoinErrors(errs)
    /\ pc' = "idle"
    /\ idx' = 0
    /\ newMessage' = ""
    /\ message' = NoRef
    /\ errs' = <<>>
    /\ UNCHANGED <<Notify, heap, calls, attempts, lastCall, hist, reqs, registered, nSends>>

Next ==
    \/ Telegram
    \/ Line
    \/ Discord
    \/ SendBegin
    \/ SendInvalid
    \/ SendRawBegin
    \/ TelegramSend
    \/ TelegramSendRaw
    \/ LineSend
    \/ LineSendRaw
    \/ DiscordSend
    \/ DiscordSendRaw
    \/ SendReturn
    \/ SendRawReturn

Spec == Init /\ [][Next]_vars

\* ================================================================ properties
\* a Send or SendRaw call that entered its loop has returned
Returned ==
    /\ pc = "idle"
    /\ lastCall.op \in {"Send", "SendRaw"}
    /\ result.kind \in {"nil", "joined"}

Failed == {j \in 1..Len(attempts) : attempts[j].err # NoErr}

\* the operation that issued request c
AttemptOf(c) == CHOOSE a \in {attempts[j] : j \in 1..Len(attempts)} : a.idx = c.idx

ChatIDPairs(m) == {p \in m : p[1] = "chat_id"}

\* C1: failure isolation.  While a loop runs no binding is attempted twice or
\* out of turn; when Send or SendRaw returns, every one of the N bindings was
\* attempted exactly once whatever failed before it, the combined error has
\* exactly as many entries as attempts failed, and the result is nil exactly
\* when none failed.
C1_FailureIsolation ==
    /\ \A j \in 1..Len(attempts) : attempts[j].idx = j
    /\ Returned =>
        /\ Len(attempts) = Len(Notify)
        /\ Len(result.errs) = Cardinality(Failed)
        /\ (result.kind = "nil") <=> (Failed = {})

C1_Witness ==
    /\ Returned
    /\ Len(Notify) = 2
    /\ attempts[1].err # NoErr
    /\ attempts[2].err = NoErr
    /\ Len(calls) = 2
    /\ Len(result.errs) = 1

\* C2: when every binding of a send call succeeds, the call returns nil and
\* has made exactly N requests, the j-th to the destination of the j-th
\* registration; while the loop runs, every earlier binding's operation
\* (request and response) is complete before binding idx is invoked.
ExpectedURL(g) ==
    CASE g.kind = "telegram" -> <<"https://api.telegram.org/bot", g.BotToken, "/sendMessage">>
      [] g.kind = "line" -> <<"https://api.line.me/v2/bot/message/push", "", "">>
      [] g.kind = "discord" -> <<"https://discord.com/api/v10/channels/", g.ChatID, "/messages">>

C2_AllSucceedInOrder ==
    /\ pc \in {"Send", "SendRaw"} => Len(attempts) = idx - 1
    /\ (Returned /\ Failed = {}) =>
        /\ result.kind = "nil"
        /\ Len(calls) = Len(registered)
        /\ Len(Notify) = Len(registered)
        /\ \A j \in 1..Len(calls) :
            /\ calls[j].idx = j
            /\ calls[j].status = StatusOK
            /\ calls[j].url = ExpectedURL(registered[j])
            /\ Notify[j].kind = registered[j].kind
            /\ Notify[j].ChatID = registered[j].ChatID

C2_Witness ==
    /\ Returned
    /\ Failed = {}
    /\ Len(calls) = 2
    /\ registered[1].kind = "line"
    /\ registered[2].kind = "telegram"

C4_DispatchByShape ==
    Returned =>
        /\ Len(attempts) = Len(Notify)
        /\ \A j \in 1..Len(attempts) :
            /\ attempts[j].idx = j
            /\ lastCall.input.shape \in {"string", "lines"} => attempts[j].op = "text"
            /\ lastCall.input.shape = "map" =>
                   /\ attempts[j].op = "raw"
                   /\ attempts[j].payload = lastCall.payload

\* C5: a Send whose message is neither a string nor a []string returns the
\* invalid-message error in the step that enters it: no loop is started, no
\* binding operation is invoked, no request is made, and the bindings and the
\* caller's maps are as they were.
UnsupportedSend(call) ==
    call.op = "Send" /\ call.input.shape \notin {"string", "lines"}

C5_InvalidMessageNoEffect ==
    /\ [](UnsupportedSend(lastCall) =>
            /\ pc = "idle"
            /\ result.kind = "invalid message"
            /\ calls = <<>>
            /\ attempts = <<>>)
    /\ [][(UnsupportedSend(lastCall') /\ nSends' # nSends) =>
            /\ Notify' = Notify
            /\ heap' = heap
            /\ hist' = hist
            /\ reqs' = reqs]_vars

C5_Witness ==
    /\ UnsupportedSend(lastCall)
    /\ lastCall.input.shape = "number"
    /\ result.kind = "invalid message"
    /\ Len(Notify) = 2
    /\ Notify[1].kind = "line"
    /\ Len(Notify[1].Messages) = 1

\* C6 as claimed: the body a discord binding posts in SendRaw is exactly the
\* payload the caller supplied to the call, and when SendRaw returns the
\* caller's map is as it was supplied.
C6_RawPayloadVerbatim ==
    /\ \A j \in 1..Len(calls) :
           (calls[j].op = "raw" /\ Notify[calls[j].idx].kind = "discord") =>
               calls[j].body.fields = lastCall.payload
    /\ (Returned /\ lastCall.op = "SendRaw") =>
           heap[lastCall.input.ref] = lastCall.payload

\* C7 as claimed: the body a telegram binding posts in SendRaw carries the
\* binding's own ChatID when the payload the caller supplied has no chat_id,
\* and the caller's chat_id when it has one.
C7_TelegramChatID ==
    \A j \in 1..Len(calls) :
        (calls[j].op = "raw" /\ Notify[calls[j].idx].kind = "telegram") =>
            IF Has(lastCall.payload, "chat_id")
            THEN ChatIDPairs(calls[j].body.fields) = ChatIDPairs(lastCall.payload)
            ELSE ChatIDPairs(calls[j].body.fields) =
                     {<<"chat_id", Notify[calls[j].idx].ChatID>>}

\* C8: the messages array of a line binding is cumulative.  Its k-th entry is
\* the entry of the k-th Send/SendRaw made on the binding (a text entry with
\* that text, or the caller's map), whatever those calls returned, and the
\* k-th request the binding issued carried k entries, the j-th being the
\* entry of call j.
C8_LineCumulative ==
    \A i \in 1..Len(Notify) :
        Notify[i].kind = "line" =>
            LET M == Notify[i].Messages
                H == hist[i]
            IN  /\ Len(M) = Len(H)
                /\ \A j \in 1..Len(H) :
                       M[j] = IF H[j].op = "text" THEN TextEntry(H[j].text)
                              ELSE RawEntry(H[j].ref)
                /\ \A k \in 1..Len(reqs[i]) :
                       /\ Len(reqs[i][k]) = k
                       /\ \A j \in 1..k :
                              IF H[j].op = "text"
                              THEN reqs[i][k][j] = {<<"type", "text">>, <<"text", H[j].text>>}
                              ELSE H[j].payload \subseteq reqs[i][k][j]

C8_Witness ==
    \E i \in 1..Len(Notify) :
        /\ Notify[i].kind = "line"
        /\ Len(hist[i]) = 2
        /\ hist[i][1].op = "text"
        /\ hist[i][2].op = "text"
        /\ Len(reqs[i]) = 2
        /\ Len(reqs[i][2]) = 2
        /\ Returned
        /\ attempts[i].err # NoErr

\* C9: the join law.  The line sequence l reaches every binding's text
\* operation as the string made of its lines in order with "\n" between
\* neighbours and nothing after the last, and that string, sent as a single
\* string, reaches the text operation as itself.
RECURSIVE JoinedLines(_)
JoinedLines(l) ==
    IF l = <<>> THEN ""
    ELSE IF Tail(l) = <<>> THEN Head(l)
    ELSE Head(l) \o "\n" \o JoinedLines(Tail(l))

C9_JoinLaw ==
    /\ JoinedLines(<<"a", "b">>) = "a\nb"
    /\ lastCall.op = "Send" =>
        \A j \in 1..Len(attempts) :
            /\ attempts[j].op = "text"
            /\ lastCall.input.shape = "lines" =>
                   attempts[j].text = JoinedLines(lastCall.input.lines)
            /\ lastCall.input.shape = "string" =>
                   attempts[j].text = lastCall.input.str

C9_Witness ==
    /\ Returned
    /\ lastCall.input.shape = "lines"
    /\ lastCall.input.lines = <<"a", "b">>
    /\ Len(attempts) = 2
    /\ attempts[1].text = "a\nb"
    /\ attempts[2].text = "a\nb"
    /\ Notify[1].kind = "telegram"
    /\ Notify[1].Text = "a\nb"

\* C10: the registry.  A step either leaves the list's length alone or is a
\* registration that puts exactly one binding, with the kind, token and
\* destination it was given, at the end and returns the dispatcher; no step
\* changes the kind, token or destination of a binding already in the list,
\* so none is removed or moved.
Identity(b) == [kind |-> b.kind, BotToken |-> b.BotToken, ChatID |-> b.ChatID]

C10_Registry ==
    [][/\ \A i \in 1..Len(Notify) :
              i <= Len(Notify') /\ Identity(Notify'[i]) = Identity(Notify[i])
       /\ IF Len(registered') # Len(registered)
          THEN /\ Len(Notify') = Len(Notify) + 1
               /\ Identity(Notify'[Len(Notify')]) = registered'[Len(registered')]
               /\ result'.kind = "self"
          ELSE Len(Notify') = Len(Notify)]_vars

C10_Witness ==
    /\ Len(Notify) = 2
    /\ lastCall.op \in Kinds
    /\ Notify[1].kind = "telegram"
    /\ Notify[1].Text # ""
    /\ Notify[2].Messages = <<>>
    /\ nSends = 2

====
